---- MODULE Spec2Model ----
(***************************************************************************)
(* Gate402 core engine: the request pipeline of ProxyService.handleRequest *)
(* (resolve -> build requirements -> verify -> settle -> forward), the     *)
(* gateway directory of GatewayService with its Redis read-through cache,  *)
(* and the in-process requirement cache of X402Service.                    *)
(*                                                                         *)
(* A host name is the sequence of its labels ("acme.gate402.io" is         *)
(* <<"acme","gate402","io">>), so that String.split('.') is Len/indexing.  *)
(* A Redis key "gateway:<x>" is the label sequence of <x>.                 *)
(***************************************************************************)
EXTENDS Integers, Sequences, FiniteSets, TLC

VARIABLES
  db,        \* durable store: gateway id -> Gateway row
  cache,     \* Redis: key -> [value, expiresAt]
  now,       \* wall clock, seconds
  reqCache,  \* X402Service.requirementsCache: key -> PaymentRequirements
  settled,   \* facilitator: proofs it has settled
  req,       \* per request: position in handleRequest, locals, response
  mgmtOps,   \* number of management operations performed
  boot       \* process start: position in index.ts, X402Service.initialized, servers

vars == <<db, cache, now, reqCache, settled, req, mgmtOps, boot>>

----------------------------------------------------------------------------
(* Bounds of the model *)

NumRequests == 2
NumResolutions == 3
NumFaultRequests == 1
NumRelayRequests == 2
MaxMgmtOps == 1
MaxLifecycleOps == 3
MaxInitCalls == 2
TickStep == 200
MaxTime == 400

(* Program constants *)

TTL == 300

\* Request slots: concurrent requests of the pipeline, and the successive
\* resolutions made against the directory under management.
Requests == 1..NumRequests
Resolutions == 1..NumResolutions
Slots == Requests \cup Resolutions

----------------------------------------------------------------------------
(* Values *)

NoDomain == <<>>
NoSubdomain == ""
NoGateway == [id |-> ""]
NoHeader == [kind |-> "absent"]
NoRequirements == [scheme |-> ""]
NoPayload == [proof |-> ""]
NoResponse == [status |-> 0]
NoVerifyResult == [called |-> FALSE]

DefaultNetwork == "eip155:84532"

\* A Date object of the instant t, and the ISO-8601 string Date.toJSON makes of it
Date(t) == [date |-> t]
ToISOString(d) == [iso |-> d.date]

GatewayIds == {"gw1", "gw2"}

InitDb ==
  [g \in GatewayIds |->
     IF g = "gw1"
     THEN [id |-> "gw1", subdomain |-> "acme", customDomain |-> <<"shop", "com">>,
           originUrl |-> "https://api.acme.com", status |-> "active",
           defaultPricePerRequest |-> "0.001", defaultToken |-> "",
           paymentScheme |-> "exact", paymentNetwork |-> "eip155:84532",
           evmAddress |-> "0xA1", secretToken |-> "sk_1", updatedAt |-> Date(0)]
     ELSE [id |-> "gw2", subdomain |-> "pay", customDomain |-> NoDomain,
           originUrl |-> "https://pay.example.org", status |-> "active",
           defaultPricePerRequest |-> "0.5", defaultToken |-> "tok-usdc",
           paymentScheme |-> "exact", paymentNetwork |-> "eip155:84532",
           evmAddress |-> "0xB2", secretToken |-> "sk_2", updatedAt |-> Date(0)]]

PlatformRoot == <<"gate402", "io">>

RequestHosts ==
  { <<"acme", "gate402", "io">>,
    <<"acme", "evil", "com">>,
    <<"shop", "com">> }

----------------------------------------------------------------------------
(* utils/subdomain.util.ts *)

ContainsLocalhost(label) == label \in {"localhost", "mylocalhost"}
StartsWithLocalhost(label) == label \in {"localhost"}

extractSubdomain(host) ==
  IF \E i \in 1..Len(host) : ContainsLocalhost(host[i])
  THEN IF Len(host) >= 2 /\ StartsWithLocalhost(host[Len(host)])
       THEN host[1]
       ELSE NoSubdomain
  ELSE IF Len(host) > 2 THEN host[1] ELSE NoSubdomain

----------------------------------------------------------------------------
(* Redis and Prisma primitives used by GatewayService *)

\* the fields of the model's records that hold Date objects when read from Prisma
DateFields == {"updatedAt"}

\* JSON.stringify: a Date is written as its ISO string, everything else as it is
JSONstringify(v) ==
  [json |-> [f \in DOMAIN v |->
               IF f \in DateFields /\ "date" \in DOMAIN v[f] THEN ToISOString(v[f])
               ELSE v[f]]]

\* JSON.parse (no reviver): an ISO string stays a string
JSONparse(s) == s.json

\* two values carry the same data when they serialise to the same text
SameData(a, b) == JSONstringify(a) = JSONstringify(b)

RedisHas(c, key, t) == key \in DOMAIN c /\ t < c[key].expiresAt

RedisSetex(c, key, ttl, value, t) ==
  [k \in DOMAIN c \cup {key} |->
     IF k = key THEN [value |-> value, expiresAt |-> t + ttl] ELSE c[k]]

RedisDel(c, key) == [k \in DOMAIN c \ {key} |-> c[k]]

RedisExpire(c, t) == [k \in {x \in DOMAIN c : t < c[x].expiresAt} |-> c[k]]

FindBySubdomain(d, sub) ==
  IF \E g \in DOMAIN d : d[g].subdomain = sub
  THEN d[CHOOSE g \in DOMAIN d : d[g].subdomain = sub]
  ELSE NoGateway

FindByCustomDomain(d, host) ==
  IF host # NoDomain /\ \E g \in DOMAIN d : d[g].customDomain = host
  THEN d[CHOOSE g \in DOMAIN d : d[g].customDomain = host]
  ELSE NoGateway

----------------------------------------------------------------------------
(* GatewayService *)

\* The durable-store part of resolveGateway: subdomain match, then custom domain.
LookupGateway(d, host) ==
  LET subdomain == extractSubdomain(host)
      bySub == IF subdomain # NoSubdomain THEN FindBySubdomain(d, subdomain)
               ELSE NoGateway
  IN IF bySub # NoGateway THEN bySub ELSE FindByCustomDomain(d, host)

\* The Redis commands of resolveGateway that can reject: redisFault names the
\* command that does ("none" when the cache service answers)
RedisFaults == {"none", "get", "setex"}

\* resolveGateway rejected: an awaited Redis command threw, nothing catches it
ResolveRejects(c) == [threw |-> TRUE, result |-> NoGateway, cache |-> c]

\* variant: a cache hit renews the lifetime of the entry
resolveGateway_RefreshOnHit(host, redisFault) ==
  IF redisFault = "get" THEN ResolveRejects(cache)
  ELSE IF RedisHas(cache, host, now)
  THEN [threw |-> FALSE, result |-> JSONparse(cache[host].value),
        cache |-> RedisSetex(cache, host, TTL, cache[host].value, now)]
  ELSE LET gateway == LookupGateway(db, host)
       IN IF gateway # NoGateway /\ gateway.status = "active"
          THEN IF redisFault = "setex" THEN ResolveRejects(cache)
               ELSE [threw |-> FALSE, result |-> gateway,
                     cache |-> RedisSetex(cache, host, TTL, JSONstringify(gateway), now)]
          ELSE [threw |-> FALSE, result |-> NoGateway, cache |-> cache]

resolveGateway(host, redisFault) ==
  IF redisFault = "get" THEN ResolveRejects(cache)
  ELSE IF RedisHas(cache, host, now)
  THEN [threw |-> FALSE, result |-> JSONparse(cache[host].value), cache |-> cache]
  ELSE LET gateway == LookupGateway(db, host)
       IN IF gateway # NoGateway /\ gateway.status = "active"
          THEN IF redisFault = "setex" THEN ResolveRejects(cache)
               ELSE [threw |-> FALSE, result |-> gateway,
                     cache |-> RedisSetex(cache, host, TTL, JSONstringify(gateway), now)]
          ELSE [threw |-> FALSE, result |-> NoGateway, cache |-> cache]

ApplyPatch(row, data) ==
  [f \in DOMAIN row |-> IF f \in DOMAIN data THEN data[f] ELSE row[f]]

\* "Invalidate cache": the keys gateway:<subdomain> and gateway:<customDomain>.
InvalidateCache(c, gateway) ==
  LET c1 == RedisDel(c, <<gateway.subdomain>>)
  IN IF gateway.customDomain # NoDomain THEN RedisDel(c1, gateway.customDomain) ELSE c1

----------------------------------------------------------------------------
(* Chain and token configuration rows read by X402Service *)

Tokens ==
  { [id |-> "tok-usdc", address |-> "0xUSDC", decimals |-> 6,
     chainId |-> "eip155:84532", name |-> "USDC", version |-> "2"] }

Chains == {"eip155:84532", "eip155:8453"}

HasToken(id) == \E t \in Tokens : t.id = id
TokenById(id) == CHOOSE t \in Tokens : t.id = id

\* chain.tokens of prisma.chain.findUnique({include: {tokens: true}})
ChainTokens(networkId) ==
  IF \E t \in Tokens : t.chainId = networkId
  THEN <<CHOOSE t \in Tokens : t.chainId = networkId>>
  ELSE <<>>

\* parseFloat on the price strings of the model: mant * 10^-scale, or NaN
Decimals ==
  [s \in {"0.001", "0.002", "0.5", "0.000249"} |->
     IF s = "0.001" THEN [mant |-> 1, scale |-> 3]
     ELSE IF s = "0.002" THEN [mant |-> 2, scale |-> 3]
     ELSE IF s = "0.5" THEN [mant |-> 5, scale |-> 1]
     ELSE [mant |-> 249, scale |-> 6]]

IsNaN(price) == price \notin DOMAIN Decimals

RECURSIVE Pow10(_)
Pow10(n) == IF n = 0 THEN 1 ELSE 10 * Pow10(n - 1)

\* floor(price * 10^decimals) computed on the decimal price
ExactAmount(price, decimals) ==
  (Decimals[price].mant * Pow10(decimals)) \div Pow10(Decimals[price].scale)

\* IEEE-754 binary64: how many units in the last place the double
\* parseFloat(price) * Math.pow(10, 6) lies from the decimal product, for the
\* prices of the model (0.000249 * 1000000 evaluates to 248.99999999999997)
Float64Ulps ==
  [s \in DOMAIN Decimals |-> IF s = "0.000249" THEN 0 - 1 ELSE 0]

\* priceFloat * Math.pow(10, token.decimals): the whole number the decimal
\* product is (no price of the model has more places than the token), and the
\* rounding error of the double
Float64Product(price, decimals) ==
  [whole |-> ExactAmount(price, decimals), ulps |-> Float64Ulps[price]]

MathFloor(x) == IF x.ulps < 0 THEN x.whole - 1 ELSE x.whole

\* BigInt(Math.floor(priceFloat * Math.pow(10, token.decimals)))
Amount(price, decimals) == MathFloor(Float64Product(price, decimals))

----------------------------------------------------------------------------
(* X402Service *)

\* variant: a build that fails yields empty requirements and the request goes on
BuildThrows_GoesOn(c) == [ok |-> TRUE, requirements |-> NoRequirements, reqCache |-> c]

BuildThrows(c) == [ok |-> FALSE, requirements |-> NoRequirements, reqCache |-> c]

\* lines 94-122: the requirement computed from the gateway row and its token
ComputeRequirements(gateway, networkId, token) ==
  [scheme |-> IF gateway.paymentScheme # "" THEN gateway.paymentScheme ELSE "exact",
   network |-> networkId,
   payTo |-> gateway.evmAddress,
   amount |-> Amount(gateway.defaultPricePerRequest, token.decimals),
   asset |-> token.address,
   extra |-> [name |-> token.name, version |-> token.version]]

NetworkOf(gateway) ==
  IF gateway.paymentNetwork # "" THEN gateway.paymentNetwork ELSE DefaultNetwork

\* lines 65-86: the token of the gateway; found is FALSE where the code throws
TokenOf(gateway) ==
  IF gateway.defaultToken # ""
  THEN IF HasToken(gateway.defaultToken)
       THEN [found |-> TRUE, token |-> TokenById(gateway.defaultToken)]
       ELSE [found |-> FALSE]
  ELSE IF NetworkOf(gateway) \in Chains /\ Len(ChainTokens(NetworkOf(gateway))) # 0
       THEN [found |-> TRUE, token |-> ChainTokens(NetworkOf(gateway))[1]]
       ELSE [found |-> FALSE]

buildPaymentRequirements(gateway) ==
  LET networkId == NetworkOf(gateway)
      tok == TokenOf(gateway)
  IN IF ~tok.found THEN BuildThrows(reqCache)
     ELSE
       LET token == tok.token
           cacheKey == <<gateway.id, networkId, token.address>>
       IN IF cacheKey \in DOMAIN reqCache
          THEN [ok |-> TRUE, requirements |-> reqCache[cacheKey], reqCache |-> reqCache]
          ELSE IF IsNaN(gateway.defaultPricePerRequest) THEN BuildThrows(reqCache)
          ELSE
            LET requirements == ComputeRequirements(gateway, networkId, token)
            IN [ok |-> TRUE, requirements |-> requirements,
                reqCache |-> [k \in DOMAIN reqCache \cup {cacheKey} |->
                                IF k = cacheKey THEN requirements ELSE reqCache[k]]]

\* clearCache(gatewayId): drops every key that starts with "<gatewayId>:"
clearCache(c, gatewayId) == [k \in {x \in DOMAIN c : x[1] # gatewayId} |-> c[k]]

createPaymentRequiredResponse(requirements, resourceInfo) ==
  [x402Version |-> 2,
   resource |-> [url |-> resourceInfo.url,
                 description |-> IF resourceInfo.description # ""
                                 THEN resourceInfo.description ELSE "Protected resource",
                 mimeType |-> IF resourceInfo.mimeType # ""
                              THEN resourceInfo.mimeType ELSE "application/json"],
   accepts |-> <<requirements>>]

\* Buffer.from(x).toString('base64') and Buffer.from(h, 'base64').toString('utf-8'):
\* decoding never throws; a header that is not base64 decodes to bytes that are no JSON.
Base64Encode(text) == [b64 |-> text]
Base64Decode(header) ==
  IF "b64" \in DOMAIN header THEN header.b64 ELSE [text |-> "garbage"]

JSONparses(s) == "json" \in DOMAIN s

\* error.message of the exceptions thrown by the facilitator client
FacilitatorVerifyError == "Facilitator verify failed (500)"
FacilitatorSettleError == "Facilitator settle failed (500)"

\* variant: a failed facilitator call lets the proof through
verifyPayment_FailOpen(paymentHeader, requirements, facilitatorOutcome) ==
  LET decoded == Base64Decode(paymentHeader)
  IN IF ~JSONparses(decoded)
     THEN [isValid |-> FALSE, invalidReason |-> "SyntaxError: Unexpected token",
           paymentPayload |-> NoPayload, facilitatorCalled |-> FALSE]
     ELSE [isValid |-> facilitatorOutcome # "invalid",
           invalidReason |-> IF facilitatorOutcome # "invalid" THEN ""
                             ELSE "invalid_exact_evm_payload_signature",
           paymentPayload |-> IF facilitatorOutcome # "invalid" THEN JSONparse(decoded)
                              ELSE NoPayload,
           facilitatorCalled |-> TRUE]

\* verifyPayment: facilitatorOutcome is what resourceServer.verifyPayment does
\* ("valid", "invalid", or "throw").
verifyPayment(paymentHeader, requirements, facilitatorOutcome) ==
  LET decoded == Base64Decode(paymentHeader)
  IN IF ~JSONparses(decoded)
     THEN [isValid |-> FALSE, invalidReason |-> "SyntaxError: Unexpected token",
           paymentPayload |-> NoPayload, facilitatorCalled |-> FALSE]
     ELSE IF facilitatorOutcome = "throw"
     THEN [isValid |-> FALSE, invalidReason |-> FacilitatorVerifyError,
           paymentPayload |-> NoPayload, facilitatorCalled |-> TRUE]
     ELSE [isValid |-> facilitatorOutcome = "valid",
           invalidReason |-> IF facilitatorOutcome = "valid" THEN ""
                             ELSE "invalid_exact_evm_payload_signature",
           paymentPayload |-> IF facilitatorOutcome = "valid" THEN JSONparse(decoded)
                              ELSE NoPayload,
           facilitatorCalled |-> TRUE]

----------------------------------------------------------------------------
(* The facilitator (external): what it may answer *)

Proofs ==
  { [proof |-> "p1", signatureOk |-> TRUE],
    [proof |-> "p1", signatureOk |-> FALSE],
    [proof |-> "p2", signatureOk |-> TRUE] }

VerifyOutcomes(payload) ==
  IF payload \in Proofs /\ payload.signatureOk
  THEN {"valid", "invalid", "throw"}
  ELSE {"invalid", "throw"}

\* It settles a given proof at most once.
SettleOutcomes(payload) ==
  IF payload \in Proofs /\ payload.signatureOk /\ payload.proof \notin settled
  THEN {"success", "rejected", "throw"}
  ELSE {"rejected", "throw"}

----------------------------------------------------------------------------
(* ProxyService.handleRequest: helpers *)

\* new URL(originUrl).hostname as its labels; <<>> when the constructor throws
UrlHostname(url) ==
  CASE url = "https://api.acme.com" -> <<"api", "acme", "com">>
    [] url = "https://v2.acme.com" -> <<"v2", "acme", "com">>
    [] url = "https://pay.example.org" -> <<"pay", "example", "org">>
    [] url = "http://127.0.0.1/admin" -> <<"127", "0", "0", "1">>
    [] url = "http://10.0.0.8/internal" -> <<"10", "0", "0", "8">>
    [] url = "http://169.254.169.254/latest/meta-data" -> <<"169", "254", "169", "254">>
    [] url = "http://127.0.0.2/admin" -> <<"127", "0", "0", "2">>
    [] url = "http://[::1]:8080/admin" -> <<"[::1]">>
    [] OTHER -> <<>>

UrlParses(url) == UrlHostname(url) # <<>>

BlockedHosts == { <<"localhost">>, <<"127", "0", "0", "1">>, <<"0", "0", "0", "0">>, <<"::1">> }

\* /^(10|172\.(1[6-9]|2[0-9]|3[0-1])|192\.168)\./
PrivateRanges(h) ==
  \/ Len(h) >= 2 /\ h[1] = "10"
  \/ Len(h) >= 3 /\ h[1] = "172"
       /\ h[2] \in {"16", "17", "18", "19", "20", "21", "22", "23", "24", "25",
                    "26", "27", "28", "29", "30", "31"}
  \/ Len(h) >= 3 /\ h[1] = "192" /\ h[2] = "168"

\* variant: the guard blocks nothing
SsrfBlocked_Off(env, url) == FALSE

SsrfBlocked(env, url) ==
  /\ env = "production"
  /\ UrlHostname(url) \in BlockedHosts \/ PrivateRanges(UrlHostname(url))

\* a header value is falsy when absent or the empty string
EmptyHeader == [raw |-> ""]
Truthy(header) == header \notin {NoHeader, EmptyHeader}

\* req.headers['payment-signature'] || req.headers['x-payment']
PaymentHeader(headers) ==
  IF Truthy(headers.paymentSignature) THEN headers.paymentSignature
  ELSE headers.xPayment

\* line 87: if (!paymentHeader)
NoPayment_Never(paymentHeader) == FALSE

NoPayment(paymentHeader) == ~Truthy(paymentHeader)

Json(status, headers, body) == [status |-> status, headers |-> headers, body |-> body]

NoHeaders == [h \in {} |-> ""]

SetHeader(headers, name, value) ==
  [h \in DOMAIN headers \cup {name} |-> IF h = name THEN value ELSE headers[h]]

\* variant: the payment metadata is left out of the forwarded request
ProxyReqHeaders_NoPaymentMetadata(gateway, paymentValid, host) ==
  SetHeader(SetHeader(SetHeader(SetHeader(NoHeaders,
    "X-Forwarded-Host", host),
    "X-Gate402-Secret", gateway.secretToken),
    "X-Gate402-Gateway-ID", gateway.id),
    "X-Gate402-Subdomain", gateway.subdomain)

\* on.proxyReq, lines 210-266: the headers the proxy puts on the request to the
\* origin; paymentValid is logData.paymentValid as the callback reads it
ProxyReqHeaders(gateway, paymentValid, host) ==
  LET base == SetHeader(SetHeader(SetHeader(SetHeader(NoHeaders,
                "X-Forwarded-Host", host),
                "X-Gate402-Secret", gateway.secretToken),
                "X-Gate402-Gateway-ID", gateway.id),
                "X-Gate402-Subdomain", gateway.subdomain)
  IN IF paymentValid
     THEN SetHeader(SetHeader(base, "X-Gate402-Payment-Verified", "true"),
                    "X-Gate402-Payment-Network", NetworkOf(gateway))
     ELSE base

\* Response headers an origin may send
OriginCacheControl == "public, max-age=60"
PlainOriginHeaders == { NoHeaders }
OriginHeaderSets ==
  { NoHeaders,
    SetHeader(NoHeaders, "Cache-Control", OriginCacheControl),
    SetHeader(NoHeaders, "Access-Control-Allow-Origin", "*"),
    SetHeader(SetHeader(NoHeaders, "Cache-Control", OriginCacheControl),
              "Access-Control-Allow-Origin", "*") }

\* what the proxy copies from the origin's response onto the client response
\* after the proxyRes callback has run: every header of the origin
CopyOriginHeaders(headers, originHeaders) ==
  [h \in DOMAIN headers \cup DOMAIN originHeaders |->
     IF h \in DOMAIN originHeaders THEN originHeaders[h] ELSE headers[h]]

\* variant: the no-store directive is set only on responses nobody paid for
ProxyResHeaders_CacheablePaid(headers, gateway, paymentValid, requestOrigin, originHeaders) ==
  LET h1 == SetHeader(SetHeader(headers, "X-Proxied-By", "Gate402"),
                      "X-Gateway-ID", gateway.id)
      h2 == IF "Access-Control-Allow-Origin" \notin DOMAIN originHeaders
               /\ Truthy(requestOrigin)
            THEN SetHeader(SetHeader(h1, "Access-Control-Allow-Origin", requestOrigin),
                           "Access-Control-Allow-Credentials", "true")
            ELSE h1
      h3 == IF ~paymentValid /\ "Cache-Control" \notin DOMAIN originHeaders
            THEN SetHeader(h2, "Cache-Control",
                           "private, no-cache, no-store, must-revalidate")
            ELSE h2
  IN CopyOriginHeaders(h3, originHeaders)

\* on.proxyRes, lines 267-292: the headers of the client response once the
\* callback has run and the origin's headers were copied
ProxyResHeaders(headers, gateway, paymentValid, requestOrigin, originHeaders) ==
  LET h1 == SetHeader(SetHeader(headers, "X-Proxied-By", "Gate402"),
                      "X-Gateway-ID", gateway.id)
      h2 == IF "Access-Control-Allow-Origin" \notin DOMAIN originHeaders
               /\ Truthy(requestOrigin)
            THEN SetHeader(SetHeader(h1, "Access-Control-Allow-Origin", requestOrigin),
                           "Access-Control-Allow-Credentials", "true")
            ELSE h1
      h3 == IF paymentValid /\ "Cache-Control" \notin DOMAIN originHeaders
            THEN SetHeader(h2, "Cache-Control",
                           "private, no-cache, no-store, must-revalidate")
            ELSE h2
  IN CopyOriginHeaders(h3, originHeaders)

\* a field of RequestLogData that the caller does not set
Undefined == ""

\* variant: paymentValid stays as logData was created with it
LogEntry_ValidNeverSet(gateway, paymentHeader, statusCode, paymentValid) ==
  [gatewayId |-> gateway.id, statusCode |-> statusCode, paymentRequired |-> TRUE,
   paymentProvided |-> Truthy(paymentHeader), paymentValid |-> FALSE,
   settlementStatus |-> Undefined, errorType |-> Undefined, errorMessage |-> Undefined]

\* logData (lines 73-84) with the statusCode and paymentValid of the call site;
\* no call site sets settlementStatus, errorType or errorMessage
LogEntry(gateway, paymentHeader, statusCode, paymentValid) ==
  [gatewayId |-> gateway.id, statusCode |-> statusCode, paymentRequired |-> TRUE,
   paymentProvided |-> Truthy(paymentHeader), paymentValid |-> paymentValid,
   settlementStatus |-> Undefined, errorType |-> Undefined, errorMessage |-> Undefined]

\* the JSON body of the 402 challenge (lines 107-115)
\* variant: the body also carries the origin URL
ChallengeBody_LeakOrigin(gateway) ==
  [error |-> "Payment Required", message |-> "This endpoint requires payment",
   details |-> [price |-> gateway.defaultPricePerRequest,
                network |-> IF gateway.paymentNetwork # "" THEN gateway.paymentNetwork
                            ELSE DefaultNetwork,
                recipient |-> gateway.evmAddress,
                originUrl |-> gateway.originUrl]]

ChallengeBody(gateway) ==
  [error |-> "Payment Required", message |-> "This endpoint requires payment",
   details |-> [price |-> gateway.defaultPricePerRequest,
                network |-> IF gateway.paymentNetwork # "" THEN gateway.paymentNetwork
                            ELSE DefaultNetwork,
                recipient |-> gateway.evmAddress]]

\* line 124: the request goes on to settlement only when the proof verified
VerifyPasses_Always(verifyResult) == TRUE

VerifyPasses(verifyResult) == verifyResult.isValid

\* lines 147-187: what follows the settlement call ("success", "rejected": the
\* facilitator answered success=false, "throw": the call itself failed)
\* variant: settleResult.success is not looked at
AfterSettle_NoSuccessCheck(outcome) ==
  IF outcome = "throw" THEN "settleThrown" ELSE "proxy"

\* variant: a settlement call that throws is ignored
AfterSettle_SwallowThrow(outcome) ==
  IF outcome = "rejected" THEN "settleRejected" ELSE "proxy"

AfterSettle(outcome) ==
  CASE outcome = "success" -> "proxy"
    [] outcome = "rejected" -> "settleRejected"
    [] OTHER -> "settleThrown"

----------------------------------------------------------------------------
(* Inputs *)

\* Host headers: the hosts above with and without a port, and a host of the
\* platform domain that no gateway was ever registered for
UnknownHost == <<"nobody", "gate402", "io">>

RawHosts ==
  [name : RequestHosts, port : {"", "3030"}] \cup {[name |-> UnknownHost, port |-> ""]}

\* rawHostname.split(':')[0]
StripPort(rawHost) == rawHost.name

GoodHeader == Base64Encode(JSONstringify([proof |-> "p1", signatureOk |-> TRUE]))
SecondGoodHeader == Base64Encode(JSONstringify([proof |-> "p2", signatureOk |-> TRUE]))
TamperedHeader == Base64Encode(JSONstringify([proof |-> "p1", signatureOk |-> FALSE]))
NotJsonHeader == Base64Encode([text |-> "hello"])
NotBase64Header == [raw |-> "%%%"]

RequestHeaders ==
  { [paymentSignature |-> NoHeader, xPayment |-> NoHeader, origin |-> NoHeader],
    [paymentSignature |-> EmptyHeader, xPayment |-> NoHeader, origin |-> NoHeader],
    [paymentSignature |-> GoodHeader, xPayment |-> NoHeader, origin |-> NoHeader],
    [paymentSignature |-> NoHeader, xPayment |-> GoodHeader, origin |-> NoHeader],
    [paymentSignature |-> TamperedHeader, xPayment |-> NoHeader, origin |-> NoHeader],
    [paymentSignature |-> NotJsonHeader, xPayment |-> NoHeader, origin |-> NoHeader],
    [paymentSignature |-> NotBase64Header, xPayment |-> NoHeader, origin |-> NoHeader] }

\* request bodies of PATCH /api/gateways/:id
Patches ==
  { [status |-> "paused"],
    [originUrl |-> "https://v2.acme.com"],
    [defaultPricePerRequest |-> "0.002"],
    [customDomain |-> NoDomain] }

OriginStatuses == {200, 500}

NodeEnvs == {"production", "development"}

PipelineRawHosts ==
  [name : { <<"acme", "gate402", "io">>, <<"nobody", "gate402", "io">> },
   port : {"", "3030"}]

UnpaidHeaders == { [paymentSignature |-> NoHeader, xPayment |-> NoHeader, origin |-> NoHeader] }

\* the gateways the management API is called for
ManagedIds == {"gw1"}

----------------------------------------------------------------------------
(* State machine *)

InitReq ==
  [pc |-> "idle", host |-> <<>>,
   headers |-> [paymentSignature |-> NoHeader, xPayment |-> NoHeader, origin |-> NoHeader],
   gateway |-> NoGateway, requirements |-> NoRequirements,
   paymentPayload |-> NoPayload, res |-> NoResponse,
   resolvedAt |-> 0, storeRow |-> NoGateway, storeRowOfResult |-> NoGateway,
   verifyCalls |-> 0, verifyValid |-> FALSE,
   verifyOutcome |-> "none", verifyResult |-> NoVerifyResult,
   settleCalls |-> 0, settleOutcome |-> "none",
   forwarded |-> FALSE, target |-> "", logs |-> <<>>,
   redisFault |-> "none", threw |-> FALSE, originFailure |-> "none",
   clientGone |-> FALSE, logWrites |-> <<>>, proxyReqHeaders |-> NoHeaders,
   originHeaders |-> NoHeaders]

----------------------------------------------------------------------------
(* Process start: index.ts and X402Service.initialize *)

\* the process at the top of index.ts, before connectDB() has settled
BootStart ==
  [pc |-> "start", initialized |-> FALSE, initCalls |-> 0, syncs |-> 0,
   lastCall |-> "none", attached |-> FALSE, apiListening |-> FALSE,
   proxyListening |-> FALSE]

\* the process once the callback of connectDB().then has run to its end
Booted ==
  [pc |-> "up", initialized |-> TRUE, initCalls |-> 1, syncs |-> 1,
   lastCall |-> "returned", attached |-> TRUE, apiListening |-> TRUE,
   proxyListening |-> TRUE]

\* what the body of initialize can do: run to its end, or throw in
\* prisma.chain.findMany or in resourceServer.initialize
InitializeOutcomes == {"ok", "findManyThrows", "syncThrows"}

\* variant: no early return for a service that is already initialized
initialize_SyncsAgain(b, outcome) ==
  IF outcome = "ok"
  THEN [b EXCEPT !.initialized = TRUE, !.syncs = @ + 1, !.initCalls = @ + 1,
                 !.lastCall = "returned"]
  ELSE [b EXCEPT !.initCalls = @ + 1, !.lastCall = "threw"]

\* X402Service.initialize, lines 34-49; syncs counts the completed
\* synchronisations of the resource server with the facilitator
initialize(b, outcome) ==
  IF b.initialized
  THEN [b EXCEPT !.initCalls = @ + 1, !.lastCall = "returned"]
  ELSE IF outcome = "ok"
  THEN [b EXCEPT !.initialized = TRUE, !.syncs = @ + 1, !.initCalls = @ + 1,
                 !.lastCall = "returned"]
  ELSE [b EXCEPT !.initCalls = @ + 1, !.lastCall = "threw"]

\* connectDB: prisma.$connect() succeeds, or the process exits
ConnectDB(connected) ==
  /\ boot.pc = "start"
  /\ boot' = [boot EXCEPT !.pc = IF connected THEN "connected" ELSE "exited"]
  /\ UNCHANGED <<db, cache, now, reqCache, settled, req, mgmtOps>>

\* index.ts lines 49-50: the awaited initialize of the start sequence; when it
\* throws, the callback rejects and none of its later statements runs
BootInitialize(outcome) ==
  /\ boot.pc = "connected"
  /\ LET b == initialize(boot, outcome)
     IN boot' = [b EXCEPT !.pc = IF b.lastCall = "threw" THEN "rejected"
                                 ELSE "initialized"]
  /\ UNCHANGED <<db, cache, now, reqCache, settled, req, mgmtOps>>

\* index.ts line 53: proxyApp.use(createProxyMiddleware(x402Service))
AttachMiddleware ==
  /\ boot.pc = "initialized"
  /\ boot' = [boot EXCEPT !.pc = "attached", !.attached = TRUE]
  /\ UNCHANGED <<db, cache, now, reqCache, settled, req, mgmtOps>>

\* index.ts lines 56-59: apiApp.listen
ListenApi ==
  /\ boot.pc = "attached"
  /\ boot' = [boot EXCEPT !.pc = "apiUp", !.apiListening = TRUE]
  /\ UNCHANGED <<db, cache, now, reqCache, settled, req, mgmtOps>>

\* index.ts lines 62-64: proxyApp.listen
ListenProxy ==
  /\ boot.pc = "apiUp"
  /\ boot' = [boot EXCEPT !.pc = "up", !.proxyListening = TRUE]
  /\ UNCHANGED <<db, cache, now, reqCache, settled, req, mgmtOps>>

\* a further call of initialize on the service the start sequence created
Reinitialize(outcome) ==
  /\ boot.pc \notin {"start", "connected", "exited"}
  /\ boot.initCalls < MaxInitCalls
  /\ boot' = initialize(boot, outcome)
  /\ UNCHANGED <<db, cache, now, reqCache, settled, req, mgmtOps>>

\* the proxy server takes a request: its port is open and the middleware is
\* on the application
Serving == boot.proxyListening /\ boot.attached

Init ==
  /\ db = InitDb
  /\ cache = [k \in {} |-> 0]
  /\ now = 0
  /\ reqCache = [k \in {} |-> 0]
  /\ settled = {}
  /\ req = [r \in Slots |-> InitReq]
  /\ mgmtOps = 0
  /\ boot = Booted

\* variant: the 404 tells the status of the row the store holds for the host
GatewayNotFound_TellsWhy(storeRow) ==
  Json(404, NoHeaders,
       [text |-> IF storeRow = NoGateway THEN "Gateway not found"
                 ELSE "Gateway is not active"])

\* line 29: the answer to a host that did not resolve; storeRow is the row the
\* durable store holds for the host, which the handler never looks at
GatewayNotFound(storeRow) == Json(404, NoHeaders, [text |-> "Gateway not found"])

\* What the client of a handleRequest call that rejected receives. The handler
\* has written nothing; Express 4 leaves the rejection unhandled and the
\* request unanswered, Express 5 passes it to the default error handler.
RejectedResponses ==
  { NoResponse, Json(500, NoHeaders, [text |-> "Internal Server Error"]) }

\* handleRequest, lines 19-56: resolve the gateway, validate its configuration;
\* nodeEnv is process.env.NODE_ENV as read at line 42, redisFault the Redis
\* command that fails during the call
Receive(r, rawHost, headers, nodeEnv, redisFault) ==
  /\ req[r].pc = "idle"
  /\ IF r = 1 THEN TRUE ELSE req[r - 1].pc # "idle"
  /\ LET hostname == StripPort(rawHost)
         rg == resolveGateway(hostname, redisFault)
         gateway == rg.result
         base == [req[r] EXCEPT !.host = hostname, !.headers = headers,
                                !.gateway = gateway, !.resolvedAt = now,
                                !.storeRow = LookupGateway(db, hostname),
                                !.storeRowOfResult =
                                   IF gateway # NoGateway THEN db[gateway.id]
                                   ELSE NoGateway,
                                !.redisFault = redisFault, !.threw = rg.threw]
     IN /\ cache' = rg.cache
        /\ \E rejected \in IF rg.threw THEN RejectedResponses ELSE {NoResponse} :
           req' = [req EXCEPT ![r] =
             IF rg.threw
             THEN [base EXCEPT !.pc = "done", !.res = rejected]
             ELSE IF gateway = NoGateway
             THEN [base EXCEPT !.pc = "done", !.res = GatewayNotFound(base.storeRow)]
             ELSE IF gateway.originUrl = "" \/ gateway.evmAddress = ""
             THEN [base EXCEPT !.pc = "done",
                     !.res = Json(500, NoHeaders, [error |-> "Gateway misconfiguration"])]
             ELSE IF ~UrlParses(gateway.originUrl)
             THEN [base EXCEPT !.pc = "done",
                     !.res = Json(500, NoHeaders, [error |-> "Invalid gateway origin URL"])]
             ELSE IF SsrfBlocked(nodeEnv, gateway.originUrl)
             THEN [base EXCEPT !.pc = "done",
                     !.res = Json(403, NoHeaders, [error |-> "Invalid origin URL"])]
             ELSE [base EXCEPT !.pc = "build"]]
  /\ UNCHANGED <<db, now, reqCache, settled, mgmtOps, boot>>

\* handleRequest, lines 58-117: build the requirements, challenge when no payment
Build(r) ==
  /\ req[r].pc = "build"
  /\ LET gateway == req[r].gateway
         built == buildPaymentRequirements(gateway)
         paymentHeader == PaymentHeader(req[r].headers)
         paymentRequired ==
           createPaymentRequiredResponse(built.requirements,
             [url |-> <<"http", req[r].host, "/">>, description |-> gateway.subdomain,
              mimeType |-> "application/json"])
         requirementsHeader == Base64Encode(JSONstringify(paymentRequired))
     IN /\ reqCache' = built.reqCache
        /\ req' = [req EXCEPT ![r] =
             IF ~built.ok
             THEN [@ EXCEPT !.pc = "done",
                     !.res = Json(500, NoHeaders, [error |-> "Server configuration error"])]
             ELSE IF NoPayment(paymentHeader)
             THEN [@ EXCEPT !.pc = "done", !.requirements = built.requirements,
                     !.logs = Append(@, LogEntry(gateway, paymentHeader, 402, FALSE)),
                     !.res = Json(402,
                                  SetHeader(NoHeaders, "PAYMENT-REQUIRED", requirementsHeader),
                                  ChallengeBody(gateway))]
             ELSE [@ EXCEPT !.pc = "verify", !.requirements = built.requirements]]
  /\ UNCHANGED <<db, cache, now, settled, mgmtOps, boot>>

\* handleRequest, lines 119-142: verify the proof with the facilitator
Verify(r) ==
  /\ req[r].pc = "verify"
  /\ LET gateway == req[r].gateway
         paymentHeader == PaymentHeader(req[r].headers)
         decoded == Base64Decode(paymentHeader)
         outcomes == IF JSONparses(decoded) THEN VerifyOutcomes(JSONparse(decoded))
                     ELSE {"throw"}
     IN \E outcome \in outcomes :
          LET verifyResult == verifyPayment(paymentHeader, req[r].requirements, outcome)
          IN req' = [req EXCEPT ![r] =
               IF ~VerifyPasses(verifyResult)
               THEN [@ EXCEPT !.pc = "done", !.verifyCalls = @ + 1,
                       !.verifyValid = verifyResult.isValid,
                       !.verifyOutcome = outcome, !.verifyResult = verifyResult,
                       !.logs = Append(@, LogEntry(gateway, paymentHeader, 402, FALSE)),
                       !.res = Json(402, NoHeaders,
                                    [error |-> "Invalid Payment",
                                     reason |-> verifyResult.invalidReason])]
               ELSE [@ EXCEPT !.pc = "settle", !.verifyCalls = @ + 1,
                       !.verifyValid = verifyResult.isValid,
                       !.verifyOutcome = outcome, !.verifyResult = verifyResult,
                       !.paymentPayload = verifyResult.paymentPayload]]
  /\ UNCHANGED <<db, cache, now, reqCache, settled, mgmtOps, boot>>

\* variant: the receipt is sent as it is, not encoded
SettlementHeader_Plain(settleResult) == [raw |-> settleResult.success]

\* line 170: the value of the PAYMENT-RESPONSE header
SettlementHeader(settleResult) == Base64Encode(JSONstringify(settleResult))

\* variant: a settlement call that throws is answered 500
SettleFailureResponse_ThrowIs500(next, settleResult) ==
  Json(IF next = "settleRejected" THEN 502 ELSE 500, NoHeaders,
       [error |-> "Payment settlement failed",
        details |-> IF next = "settleRejected" THEN settleResult
                    ELSE FacilitatorSettleError])

\* lines 163-166 and 183-186: the response to a settlement that failed
SettleFailureResponse(next, settleResult) ==
  Json(502, NoHeaders,
       [error |-> "Payment settlement failed",
        details |-> IF next = "settleRejected" THEN settleResult
                    ELSE FacilitatorSettleError])

SettleResult(outcome, payload, requirements) ==
  IF outcome = "success"
  THEN [success |-> TRUE, transaction |-> payload.proof, network |-> requirements.network]
  ELSE [success |-> FALSE, errorReason |-> "insufficient_funds"]

\* handleRequest, lines 144-192 and 316: settle, then hand the request to the proxy
Settle(r) ==
  /\ req[r].pc = "settle"
  /\ \E outcome \in SettleOutcomes(req[r].paymentPayload) :
       LET gateway == req[r].gateway
           paymentHeader == PaymentHeader(req[r].headers)
           settleResult == SettleResult(outcome, req[r].paymentPayload, req[r].requirements)
           next == AfterSettle(outcome)
       IN /\ settled' = IF outcome = "success"
                        THEN settled \cup {req[r].paymentPayload.proof}
                        ELSE settled
          /\ req' = [req EXCEPT ![r] =
               CASE next = "proxy" ->
                      [@ EXCEPT !.pc = "proxying", !.settleCalls = @ + 1,
                         !.settleOutcome = outcome,
                         !.res = Json(0,
                                      SetHeader(NoHeaders, "PAYMENT-RESPONSE",
                                                SettlementHeader(settleResult)),
                                      [pending |-> TRUE]),
                         !.forwarded = TRUE, !.target = gateway.originUrl,
                         !.proxyReqHeaders =
                            ProxyReqHeaders(gateway, req[r].verifyValid, req[r].host)]
                 [] OTHER ->
                      [@ EXCEPT !.pc = "done", !.settleCalls = @ + 1,
                         !.settleOutcome = outcome,
                         !.logs = Append(@, LogEntry(gateway, paymentHeader, 502, TRUE)),
                         !.res = SettleFailureResponse(next, settleResult)]]
  /\ UNCHANGED <<db, cache, now, reqCache, mgmtOps, boot>>

\* on.proxyRes, lines 267-300: the origin answered; its response is relayed
ProxyRes(r, statusCode, originHeaders) ==
  /\ req[r].pc = "proxying"
  /\ req' = [req EXCEPT ![r] =
       [@ EXCEPT !.pc = "relaying",
          !.logs = Append(@, LogEntry(req[r].gateway, PaymentHeader(req[r].headers),
                                      statusCode, TRUE)),
          !.originHeaders = originHeaders,
          !.res = Json(statusCode,
                       ProxyResHeaders(req[r].res.headers, req[r].gateway,
                                       req[r].verifyValid, req[r].headers.origin,
                                       originHeaders),
                       [origin |-> req[r].target])]]
  /\ UNCHANGED <<db, cache, now, reqCache, settled, mgmtOps, boot>>

\* the relayed response reached the client in full
ProxyEnd(r) ==
  /\ req[r].pc = "relaying"
  /\ req' = [req EXCEPT ![r] = [@ EXCEPT !.pc = "done"]]
  /\ UNCHANGED <<db, cache, now, reqCache, settled, mgmtOps, boot>>

\* What makes the proxy emit 'error': the origin did not answer within
\* proxyTimeout (line 198), refused the connection, or its name did not resolve
OriginFailures == {"timeout", "refused", "dns"}

\* status the error callback answers a failure with: err is not looked at
ErrorStatus(cause) == 502

\* on.error, lines 301-312: the connection to the origin failed, before the
\* origin answered or while its response was being relayed; in the second
\* case the response head may already be on the wire (writeHead then has no
\* effect on what the client sees)
ProxyError(r, cause) ==
  /\ req[r].pc \in {"proxying", "relaying"}
  /\ \E headersSent \in IF req[r].pc = "proxying" THEN {FALSE} ELSE {FALSE, TRUE} :
       req' = [req EXCEPT ![r] =
         [@ EXCEPT !.pc = "done", !.originFailure = cause,
            !.logs = Append(@, LogEntry(req[r].gateway, PaymentHeader(req[r].headers),
                                        ErrorStatus(cause), TRUE)),
            !.res = IF headersSent THEN req[r].res
                    ELSE Json(ErrorStatus(cause), req[r].res.headers,
                              [text |-> "Bad Gateway"])]]
  /\ UNCHANGED <<db, cache, now, reqCache, settled, mgmtOps, boot>>

\* The client closes its connection. handleRequest registers no listener for
\* it. While the settlement is awaited (lines 148-151) nothing is cancelled and
\* the handler goes on; once the request is with the proxy (line 316) the
\* proxy aborts the outgoing request and reports 'econnreset', for which the
\* options of lines 209-313 hold no callback: neither proxyRes nor error runs.
ClientDisconnect(r) ==
  /\ req[r].pc \in {"settle", "proxying"}
  /\ ~req[r].clientGone
  /\ req' = [req EXCEPT ![r] =
       IF req[r].pc = "settle"
       THEN [@ EXCEPT !.clientGone = TRUE]
       ELSE [@ EXCEPT !.clientGone = TRUE, !.pc = "done", !.res = NoResponse]]
  /\ UNCHANGED <<db, cache, now, reqCache, settled, mgmtOps, boot>>

\* what prisma.requestLog.create does with a row
InsertOutcomes == {"ok", "throws"}

\* variant: the failure of the insert is passed on to the caller
logRequest_Rethrow(data, insertOutcome) ==
  [stored |-> insertOutcome = "ok", rejected |-> insertOutcome = "throws"]

\* AnalyticsService.logRequest: whether the row is stored and whether the
\* promise it returns rejects (the catch of lines 262-264 swallows the error)
logRequest(data, insertOutcome) ==
  [stored |-> insertOutcome = "ok", rejected |-> FALSE]

\* The insert of a submitted log entry completes. handleRequest neither awaits
\* nor catches the promise of logRequest (lines 99, 127, 157, 177, 295, 303):
\* were it to reject, the unhandled rejection would end the process and cut
\* off every request still in progress.
LogWrite(r, insertOutcome) ==
  /\ Len(req[r].logWrites) < Len(req[r].logs)
  /\ LET data == req[r].logs[Len(req[r].logWrites) + 1]
         result == logRequest(data, insertOutcome)
     IN req' = [q \in DOMAIN req |->
          LET written == IF q = r
                         THEN [req[q] EXCEPT !.logWrites = Append(@, insertOutcome)]
                         ELSE req[q]
          IN IF result.rejected /\ req[q].pc \notin {"idle", "done"}
             THEN [written EXCEPT !.pc = "done", !.res = NoResponse, !.threw = TRUE]
             ELSE written]
  /\ UNCHANGED <<db, cache, now, reqCache, settled, mgmtOps, boot>>

\* request bodies of POST /api/gateways
CreateRequests ==
  { [subdomain |-> "newco", customDomain |-> NoDomain,
     originUrl |-> "https://api.newco.com", defaultPricePerRequest |-> "0.001",
     defaultToken |-> "", paymentScheme |-> "", paymentNetwork |-> "",
     evmAddress |-> "0xC3"],
    [subdomain |-> "acme", customDomain |-> NoDomain,
     originUrl |-> "https://other.example.org", defaultPricePerRequest |-> "0.5",
     defaultToken |-> "tok-usdc", paymentScheme |-> "", paymentNetwork |-> "",
     evmAddress |-> "0xD4"] }

\* the ids Prisma gives to new rows
NewIds == {"gw3"}

\* GatewayService.createGateway; the status column defaults to 'active'
CreateGateway(id, data) ==
  /\ id \notin DOMAIN db
  /\ \A g \in DOMAIN db : db[g].subdomain # data.subdomain
  /\ data.customDomain # NoDomain
       => \A g \in DOMAIN db : db[g].customDomain # data.customDomain
  /\ data.defaultToken # "" => HasToken(data.defaultToken)
  /\ db' = [g \in DOMAIN db \cup {id} |->
              IF g = id
              THEN [id |-> id, subdomain |-> data.subdomain,
                    customDomain |-> data.customDomain,
                    originUrl |-> data.originUrl, status |-> "active",
                    defaultPricePerRequest |-> data.defaultPricePerRequest,
                    defaultToken |-> data.defaultToken,
                    paymentScheme |-> IF data.paymentScheme # ""
                                      THEN data.paymentScheme ELSE "exact",
                    paymentNetwork |-> IF data.paymentNetwork # ""
                                       THEN data.paymentNetwork ELSE DefaultNetwork,
                    evmAddress |-> data.evmAddress, secretToken |-> "sk_new",
                    updatedAt |-> Date(now)]
              ELSE db[g]]
  /\ mgmtOps' = mgmtOps + 1
  /\ UNCHANGED <<cache, now, reqCache, settled, req, boot>>

\* GatewayService.updateGateway
UpdateGateway(id, data) ==
  /\ id \in DOMAIN db
  /\ "defaultToken" \in DOMAIN data /\ data.defaultToken # "" => HasToken(data.defaultToken)
  /\ "customDomain" \in DOMAIN data /\ data.customDomain # NoDomain
       => \A g \in DOMAIN db \ {id} : db[g].customDomain # data.customDomain
  /\ LET gateway == [ApplyPatch(db[id], data) EXCEPT !.updatedAt = Date(now)]
     IN /\ db' = [db EXCEPT ![id] = gateway]
        /\ cache' = InvalidateCache(cache, gateway)
  /\ mgmtOps' = mgmtOps + 1
  /\ UNCHANGED <<now, reqCache, settled, req, boot>>

\* GatewayService.deleteGateway
DeleteGateway(id) ==
  /\ id \in DOMAIN db
  /\ LET gateway == [db[id] EXCEPT !.status = "deleted", !.updatedAt = Date(now)]
     IN /\ db' = [db EXCEPT ![id] = gateway]
        /\ cache' = InvalidateCache(cache, gateway)
  /\ mgmtOps' = mgmtOps + 1
  /\ UNCHANGED <<now, reqCache, settled, req, boot>>

\* time passes; Redis drops the keys whose TTL has run out
Tick ==
  /\ now + TickStep <= MaxTime
  /\ now' = now + TickStep
  /\ cache' = RedisExpire(cache, now')
  /\ UNCHANGED <<db, reqCache, settled, req, mgmtOps, boot>>

\* The proxy serving concurrent requests against a fixed directory.
Next ==
  \/ \E r \in Requests, rawHost \in PipelineRawHosts, headers \in RequestHeaders,
        nodeEnv \in NodeEnvs :
       Receive(r, rawHost, headers, nodeEnv, "none")
  \/ \E r \in Requests : Build(r)
  \/ \E r \in Requests : Verify(r)
  \/ \E r \in Requests : Settle(r)
  \/ \E r \in Requests, statusCode \in OriginStatuses, originHeaders \in PlainOriginHeaders :
       ProxyRes(r, statusCode, originHeaders)
  \/ \E r \in Requests : ProxyEnd(r)
  \/ \E r \in Requests, cause \in OriginFailures : ProxyError(r, cause)

Spec == Init /\ [][Next]_vars

\* The directory under management: unpaid requests served one after the
\* other, gateway updates and deletions, and the passage of time.
DirectoryNext ==
  \/ \E r \in Resolutions, rawHost \in RawHosts, headers \in UnpaidHeaders,
        nodeEnv \in NodeEnvs :
       /\ \A q \in Resolutions \ {r} : req[q].pc \in {"idle", "done"}
       /\ Receive(r, rawHost, headers, nodeEnv, "none")
  \/ \E r \in Resolutions : Build(r)
  \/ \E id \in ManagedIds, data \in Patches :
       mgmtOps < MaxMgmtOps /\ UpdateGateway(id, data)
  \/ \E id \in ManagedIds : mgmtOps < MaxMgmtOps /\ DeleteGateway(id)
  \/ Tick

DirectorySpec == Init /\ [][DirectoryNext]_vars

\* The management API alone: gateways are created, updated and deleted.
StatusPatches ==
  { [status |-> "active"], [status |-> "paused"], [status |-> "deleted"] }

LifecycleIds == GatewayIds \cup NewIds

LifecycleNext ==
  \/ \E id \in NewIds, data \in CreateRequests :
       mgmtOps < MaxLifecycleOps /\ CreateGateway(id, data)
  \/ \E id \in LifecycleIds, data \in Patches \cup StatusPatches :
       mgmtOps < MaxLifecycleOps /\ UpdateGateway(id, data)
  \/ \E id \in LifecycleIds : mgmtOps < MaxLifecycleOps /\ DeleteGateway(id)

LifecycleSpec == Init /\ [][LifecycleNext]_vars

\* The proxy with failing surroundings: Redis commands that reject, an origin
\* that times out, refuses or does not resolve, clients that hang up, and
\* request-log inserts that throw.
FaultRequests == 1..NumFaultRequests

FaultRawHosts == [name : { <<"acme", "gate402", "io">> }, port : {""}]

FaultHeaders ==
  { [paymentSignature |-> NoHeader, xPayment |-> NoHeader, origin |-> NoHeader],
    [paymentSignature |-> GoodHeader, xPayment |-> NoHeader, origin |-> NoHeader] }

\* The proxy in front of one gateway whose configuration is any that the
\* management API stores: updateGateway writes originUrl, evmAddress,
\* paymentNetwork and defaultPricePerRequest as given (the price column is
\* DECIMAL(10,6)), and a token row can be removed after a gateway named it.
ConfigPrices == {"0.001", "0.000249"}
ConfigTokens == {"", "tok-usdc", "tok-gone"}
ConfigNetworks == {"eip155:84532", "eip155:8453", "eip155:999"}
ConfigOrigins == {"", "https://api.acme.com"}
ConfigAddresses == {"", "0xA1"}

Configs ==
  [defaultPricePerRequest : ConfigPrices, defaultToken : ConfigTokens,
   paymentNetwork : ConfigNetworks, originUrl : ConfigOrigins,
   evmAddress : ConfigAddresses]

ConfigDb(config) ==
  [g \in {"gw1"} |-> [ApplyPatch(InitDb["gw1"], config) EXCEPT !.customDomain = NoDomain]]

ConfigInit ==
  /\ db \in {ConfigDb(config) : config \in Configs}
  /\ cache = [k \in {} |-> 0]
  /\ now = 0
  /\ reqCache = [k \in {} |-> 0]
  /\ settled = {}
  /\ req = [r \in Slots |-> InitReq]
  /\ mgmtOps = 0
  /\ boot = Booted

ConfigNext ==
  \/ \E r \in Requests, rawHost \in FaultRawHosts, headers \in FaultHeaders :
       Receive(r, rawHost, headers, "development", "none")
  \/ \E r \in Requests : Build(r)
  \/ \E r \in Requests : Verify(r)
  \/ \E r \in Requests : Settle(r)
  \/ \E r \in Requests, statusCode \in OriginStatuses, originHeaders \in PlainOriginHeaders :
       ProxyRes(r, statusCode, originHeaders)
  \/ \E r \in Requests : ProxyEnd(r)
  \/ \E r \in Requests, cause \in OriginFailures : ProxyError(r, cause)

ConfigSpec == ConfigInit /\ [][ConfigNext]_vars

\* A directory in which a gateway's custom domain has three labels and its
\* first label is the subdomain of another gateway, which is managed.
SubdomainOfCustomDomain == <<"pay", "shop", "com">>

CustomDomainDb == [InitDb EXCEPT !["gw1"].customDomain = SubdomainOfCustomDomain]

CustomDomainRawHosts ==
  { [name |-> SubdomainOfCustomDomain, port |-> ""],
    [name |-> <<"acme", "gate402", "io">>, port |-> ""] }

CustomDomainManagedIds == {"gw2"}

CustomDomainInit ==
  /\ db = CustomDomainDb
  /\ cache = [k \in {} |-> 0]
  /\ now = 0
  /\ reqCache = [k \in {} |-> 0]
  /\ settled = {}
  /\ req = [r \in Slots |-> InitReq]
  /\ mgmtOps = 0
  /\ boot = Booted

CustomDomainNext ==
  \/ \E r \in Resolutions, rawHost \in CustomDomainRawHosts, headers \in UnpaidHeaders :
       /\ \A q \in Resolutions \ {r} : req[q].pc \in {"idle", "done"}
       /\ Receive(r, rawHost, headers, "production", "none")
  \/ \E r \in Resolutions : Build(r)
  \/ \E id \in CustomDomainManagedIds, data \in StatusPatches :
       mgmtOps < MaxMgmtOps /\ UpdateGateway(id, data)
  \/ \E id \in CustomDomainManagedIds : mgmtOps < MaxMgmtOps /\ DeleteGateway(id)
  \/ Tick

CustomDomainSpec == CustomDomainInit /\ [][CustomDomainNext]_vars

\* resolveGateway as the event loop runs it: each awaited command is a step of
\* its own, and other calls and management operations run between the steps.
\* lines 431-432: redis.get on the host's key
ResolveGet(r, host) ==
  /\ req[r].pc = "idle"
  /\ req' = [req EXCEPT ![r] =
       IF RedisHas(cache, host, now)
       THEN [@ EXCEPT !.pc = "done", !.host = host,
                      !.gateway = JSONparse(cache[host].value)]
       ELSE [@ EXCEPT !.pc = "lookup", !.host = host]]
  /\ UNCHANGED <<db, cache, now, reqCache, settled, mgmtOps, boot>>

\* lines 435-454: the row is read from the store and its status is checked
ResolveLookup(r) ==
  /\ req[r].pc = "lookup"
  /\ LET gateway == LookupGateway(db, req[r].host)
     IN req' = [req EXCEPT ![r] =
          IF gateway # NoGateway /\ gateway.status = "active"
          THEN [@ EXCEPT !.pc = "setex", !.gateway = gateway]
          ELSE [@ EXCEPT !.pc = "done"]]
  /\ UNCHANGED <<db, cache, now, reqCache, settled, mgmtOps, boot>>

\* lines 456-457: the row that was read is written to the cache and returned
ResolveSetex(r) ==
  /\ req[r].pc = "setex"
  /\ cache' = RedisSetex(cache, req[r].host, TTL, JSONstringify(req[r].gateway), now)
  /\ req' = [req EXCEPT ![r] = [@ EXCEPT !.pc = "done"]]
  /\ UNCHANGED <<db, now, reqCache, settled, mgmtOps, boot>>

\* hosts whose cache key is one that updateGateway and deleteGateway delete
RaceHosts == { <<"shop", "com">> }

RacePatches ==
  { [status |-> "paused"],
    [originUrl |-> "https://v2.acme.com"],
    [defaultPricePerRequest |-> "0.002"] }

RaceNext ==
  \/ \E r \in Resolutions, host \in RaceHosts : ResolveGet(r, host)
  \/ \E r \in Resolutions : ResolveLookup(r)
  \/ \E r \in Resolutions : ResolveSetex(r)
  \/ \E id \in ManagedIds, data \in RacePatches :
       mgmtOps < MaxMgmtOps /\ UpdateGateway(id, data)
  \/ \E id \in ManagedIds : mgmtOps < MaxMgmtOps /\ DeleteGateway(id)

RaceSpec == Init /\ [][RaceNext]_vars

\* The process from its start: the start sequence, then one request.
BootInit ==
  /\ db = InitDb
  /\ cache = [k \in {} |-> 0]
  /\ now = 0
  /\ reqCache = [k \in {} |-> 0]
  /\ settled = {}
  /\ req = [r \in Slots |-> InitReq]
  /\ mgmtOps = 0
  /\ boot = BootStart

BootNext ==
  \/ \E connected \in BOOLEAN : ConnectDB(connected)
  \/ \E outcome \in InitializeOutcomes : BootInitialize(outcome)
  \/ AttachMiddleware
  \/ ListenApi
  \/ ListenProxy
  \/ \E outcome \in InitializeOutcomes : Reinitialize(outcome)
  \/ \E r \in FaultRequests, rawHost \in PipelineRawHosts, headers \in RequestHeaders :
       Serving /\ Receive(r, rawHost, headers, "development", "none")
  \/ \E r \in FaultRequests : Build(r)
  \/ \E r \in FaultRequests : Verify(r)
  \/ \E r \in FaultRequests : Settle(r)
  \/ \E r \in FaultRequests, statusCode \in OriginStatuses,
        originHeaders \in PlainOriginHeaders :
       ProxyRes(r, statusCode, originHeaders)
  \/ \E r \in FaultRequests : ProxyEnd(r)
  \/ \E r \in FaultRequests, cause \in OriginFailures : ProxyError(r, cause)

BootSpec == BootInit /\ [][BootNext]_vars

\* The proxy relaying the responses of origins that do or do not send
\* Cache-Control and CORS headers, to clients that do or do not send Origin.
ClientOrigin == [raw |-> "https://app.example"]

RelayHeaders ==
  { [paymentSignature |-> GoodHeader, xPayment |-> NoHeader, origin |-> ClientOrigin],
    [paymentSignature |-> SecondGoodHeader, xPayment |-> NoHeader, origin |-> NoHeader] }

RelayRequests == 1..NumRelayRequests

RelayNext ==
  \/ \E r \in RelayRequests, rawHost \in FaultRawHosts, headers \in RelayHeaders :
       Receive(r, rawHost, headers, "development", "none")
  \/ \E r \in RelayRequests : Build(r)
  \/ \E r \in RelayRequests : Verify(r)
  \/ \E r \in RelayRequests : Settle(r)
  \/ \E r \in RelayRequests, statusCode \in {200}, originHeaders \in OriginHeaderSets :
       ProxyRes(r, statusCode, originHeaders)
  \/ \E r \in RelayRequests : ProxyEnd(r)
  \/ \E r \in RelayRequests, cause \in OriginFailures : ProxyError(r, cause)

RelaySpec == Init /\ [][RelayNext]_vars

FaultNext ==
  \/ \E r \in FaultRequests, rawHost \in FaultRawHosts, headers \in FaultHeaders,
        redisFault \in RedisFaults :
       Receive(r, rawHost, headers, "development", redisFault)
  \/ \E r \in FaultRequests : Build(r)
  \/ \E r \in FaultRequests : Verify(r)
  \/ \E r \in FaultRequests : Settle(r)
  \/ \E r \in FaultRequests, statusCode \in OriginStatuses, originHeaders \in PlainOriginHeaders :
       ProxyRes(r, statusCode, originHeaders)
  \/ \E r \in FaultRequests : ProxyEnd(r)
  \/ \E r \in FaultRequests, cause \in OriginFailures : ProxyError(r, cause)
  \/ \E r \in FaultRequests : ClientDisconnect(r)
  \/ \E r \in FaultRequests, insertOutcome \in InsertOutcomes : LogWrite(r, insertOutcome)

FaultSpec == Init /\ [][FaultNext]_vars

----------------------------------------------------------------------------
(* Properties of the request pipeline *)

Started(r) == req[r].pc # "idle"
Finished(r) == req[r].pc = "done"

SettleFailed(r) == req[r].settleOutcome \in {"rejected", "throw"}

HeaderLess(r) ==
  /\ Started(r)
  /\ req[r].headers.paymentSignature = NoHeader
  /\ req[r].headers.xPayment = NoHeader

\* C1: the origin is contacted only after settlePayment returned success=true
\* in the same request; a request whose settlement returned success=false or
\* threw is never forwarded.
C1_ForwardOnlyAfterSettlement ==
  \A r \in Requests :
    /\ req[r].forwarded => req[r].settleCalls = 1 /\ req[r].settleOutcome = "success"
    /\ req[r].pc = "proxying" => req[r].forwarded
    /\ SettleFailed(r) => ~req[r].forwarded /\ req[r].target = "" /\ Finished(r)

C1_Witness ==
  \E r1, r2 \in Requests :
    /\ req[r1].forwarded /\ req[r1].settleOutcome = "success"
    /\ SettleFailed(r2) /\ Finished(r2) /\ req[r2].res.status = 502

\* C2: settlePayment is called only after verifyPayment returned isValid=true
\* for the same request; a request whose proof fails verification is answered
\* 402, with no settle call and no forward.
C2_SettleOnlyAfterVerify ==
  \A r \in Requests :
    /\ req[r].settleCalls > 0 \/ req[r].pc = "settle"
         => req[r].verifyCalls = 1 /\ req[r].verifyValid
    /\ req[r].verifyCalls > 0 /\ ~req[r].verifyValid
         => /\ Finished(r)
            /\ req[r].res.status = 402
            /\ req[r].settleCalls = 0
            /\ ~req[r].forwarded

C2_Witness ==
  \E r1, r2 \in Requests :
    /\ Finished(r1) /\ req[r1].headers.paymentSignature = TamperedHeader
    /\ req[r1].verifyCalls = 1 /\ req[r1].res.status = 402
    /\ Finished(r2) /\ req[r2].headers.paymentSignature = NotJsonHeader
    /\ req[r2].verifyCalls = 1 /\ req[r2].res.status = 402

\* C3: a request that carries neither a payment-signature nor an x-payment
\* header never reaches Verify, Settle or the forwarder.
C3_NoHeaderNoPaymentPhases ==
  \A r \in Requests :
    HeaderLess(r) =>
      /\ req[r].pc \in {"build", "done"}
      /\ req[r].verifyCalls = 0
      /\ req[r].settleCalls = 0
      /\ ~req[r].forwarded

C3_Witness ==
  \E r \in Requests :
    HeaderLess(r) /\ Finished(r) /\ req[r].res.status = 402 /\ req[r].verifyCalls = 0

\* The 402 challenge of request r is well formed: the PAYMENT-REQUIRED header
\* is base64 of the JSON payment requirement, the body names price, network
\* and recipient of the gateway, and nothing in it is the origin URL.
WellFormedChallenge(r) ==
  LET res == req[r].res
      gateway == req[r].gateway
  IN /\ res.status = 402
     /\ "PAYMENT-REQUIRED" \in DOMAIN res.headers
     /\ JSONparses(Base64Decode(res.headers["PAYMENT-REQUIRED"]))
     /\ JSONparse(Base64Decode(res.headers["PAYMENT-REQUIRED"])).accepts
          = <<req[r].requirements>>
     /\ req[r].requirements # NoRequirements
     /\ DOMAIN res.body.details = {"price", "network", "recipient"}
     /\ res.body.details.price = gateway.defaultPricePerRequest
     /\ res.body.details.network = NetworkOf(gateway)
     /\ res.body.details.recipient = gateway.evmAddress
     /\ \A f \in DOMAIN res.body.details : res.body.details[f] # gateway.originUrl

\* C4 as stated: a request with no payment header always produces a 402
\* response with a parseable PAYMENT-REQUIRED header and a body with price,
\* network and recipient and never the origin URL.
C4_Original ==
  \A r \in Requests : HeaderLess(r) /\ Finished(r) => WellFormedChallenge(r)

\* C4 amended: a request with no payment header that is not turned away
\* before the payment phase (404 unknown host, 500 misconfiguration, 403
\* blocked origin) produces the well-formed 402 challenge.
C4_ChallengeWhenNoHeader ==
  \A r \in Requests :
    HeaderLess(r) /\ Finished(r) =>
      \/ req[r].res.status \in {403, 404, 500} /\ req[r].requirements = NoRequirements
      \/ WellFormedChallenge(r)

C4_Witness ==
  \E r \in Requests : HeaderLess(r) /\ Finished(r) /\ WellFormedChallenge(r)

\* two requests whose verified payment payloads carry the same proof
SameProof(r1, r2) ==
  /\ req[r1].paymentPayload # NoPayload
  /\ req[r1].paymentPayload.proof = req[r2].paymentPayload.proof

\* C10: of the requests that carry the same payment proof, at most one is
\* forwarded to the origin (the facilitator settles a proof at most once).
C10_OneForwardPerProof ==
  \A r1, r2 \in Requests :
    r1 # r2 /\ SameProof(r1, r2) => ~(req[r1].forwarded /\ req[r2].forwarded)

\* two requests carry the same proof: one was forwarded, the other was refused
\* at settlement
C10_Witness ==
  \E r1, r2 \in Requests :
    /\ r1 # r2 /\ SameProof(r1, r2)
    /\ req[r1].forwarded
    /\ SettleFailed(r2) /\ Finished(r2) /\ ~req[r2].forwarded

----------------------------------------------------------------------------
(* Properties of the gateway directory and of the requirement cache *)
(* req[r].storeRow is the row the durable store held for the host when      *)
(* request r resolved it, req[r].storeRowOfResult the row of the gateway    *)
(* that the resolution returned, at that moment.                            *)

\* what a resolution that reads the durable store returns
StoreAnswer(r) ==
  IF req[r].storeRow # NoGateway /\ req[r].storeRow.status = "active"
  THEN req[r].storeRow
  ELSE NoGateway

\* C5: resolveGateway returns NotFound for a host whose gateway has status
\* paused or deleted in the durable store, also when a cache entry for the
\* host was written before the status change.
C5_InactiveIsNotFound ==
  \A r \in Resolutions :
    /\ Started(r)
    /\ req[r].storeRow # NoGateway
    /\ req[r].storeRow.status \in {"paused", "deleted"}
    => req[r].gateway = NoGateway

\* the hosts that the routing rule of the directory maps to gateway row g:
\* <subdomain>.<platform root>, <subdomain>.localhost, or the custom domain
RoutesTo(host, g) ==
  \/ host = <<g.subdomain>> \o PlatformRoot
  \/ host = <<g.subdomain, "localhost">>
  \/ g.customDomain # NoDomain /\ host = g.customDomain

\* C6: resolveGateway returns NotFound for every host that is neither
\* <subdomain>.<platform root> (or <subdomain>.localhost) nor the exact custom
\* domain of an active gateway, even when its first label is a subdomain.
C6_ForeignHostIsNotFound ==
  [][\A r \in Resolutions :
       /\ req[r].pc = "idle"
       /\ req'[r].pc # "idle"
       /\ ~\E id \in GatewayIds : db[id].status = "active" /\ RoutesTo(req'[r].host, db[id])
       => req'[r].gateway = NoGateway]_vars

\* C7: after updateGateway or deleteGateway has returned for a gateway, no
\* cache entry of that gateway remains under any host key.
C7_UpdatePurgesCache ==
  [][\A id \in GatewayIds :
       db'[id] # db[id]
       => \A key \in DOMAIN cache' : JSONparse(cache'[key].value).id # id]_vars

C9_RequirementsFollowUpdate ==
  \A r \in Resolutions :
    req[r].requirements # NoRequirements
    => req[r].requirements
         = ComputeRequirements(req[r].gateway, NetworkOf(req[r].gateway),
                               TokenOf(req[r].gateway).token)

----------------------------------------------------------------------------
(* The proxy deployed in production (NODE_ENV = 'production') against a     *)
(* directory that also holds gateways registered with an internal or an     *)
(* unparseable origin: createGateway and updateGateway store any originUrl. *)

ProductionOrigins ==
  [gw1 |-> "https://api.acme.com",
   gw3 |-> "http://127.0.0.1/admin",
   gw4 |-> "http://10.0.0.8/internal",
   gw5 |-> "http://169.254.169.254/latest/meta-data",
   gw6 |-> "http://127.0.0.2/admin",
   gw7 |-> "http://[::1]:8080/admin",
   gw8 |-> "api.acme.com/v1"]

ProductionSubdomains ==
  [gw1 |-> "acme", gw3 |-> "loop", gw4 |-> "lan", gw5 |-> "meta",
   gw6 |-> "loop2", gw7 |-> "loop6", gw8 |-> "broken"]

ProductionDb ==
  [g \in DOMAIN ProductionOrigins |->
     [InitDb["gw1"] EXCEPT !.id = g, !.subdomain = ProductionSubdomains[g],
                           !.customDomain = NoDomain,
                           !.originUrl = ProductionOrigins[g]]]

ProductionRawHosts ==
  [name : {<<ProductionSubdomains[g]>> \o PlatformRoot : g \in DOMAIN ProductionOrigins}
            \cup {<<"nobody", "gate402", "io">>},
   port : {""}]

ProductionHeaders ==
  { [paymentSignature |-> NoHeader, xPayment |-> NoHeader, origin |-> NoHeader],
    [paymentSignature |-> GoodHeader, xPayment |-> NoHeader, origin |-> NoHeader] }

ProductionInit ==
  /\ db = ProductionDb
  /\ cache = [k \in {} |-> 0]
  /\ now = 0
  /\ reqCache = [k \in {} |-> 0]
  /\ settled = {}
  /\ req = [r \in Slots |-> InitReq]
  /\ mgmtOps = 0
  /\ boot = Booted

ProductionNext ==
  \/ \E r \in Requests, rawHost \in ProductionRawHosts, headers \in ProductionHeaders :
       Receive(r, rawHost, headers, "production", "none")
  \/ \E r \in Requests : Build(r)
  \/ \E r \in Requests : Verify(r)
  \/ \E r \in Requests : Settle(r)
  \/ \E r \in Requests, statusCode \in OriginStatuses, originHeaders \in PlainOriginHeaders :
       ProxyRes(r, statusCode, originHeaders)
  \/ \E r \in Requests : ProxyEnd(r)
  \/ \E r \in Requests, cause \in OriginFailures : ProxyError(r, cause)

ProductionSpec == ProductionInit /\ [][ProductionNext]_vars

----------------------------------------------------------------------------
(* Properties of the origin check *)

\* the address classes of a host name given as its labels
IsLoopback(h) ==
  \/ h \in {<<"localhost">>, <<"::1">>, <<"[::1]">>}
  \/ Len(h) = 4 /\ h[1] = "127"

IsLinkLocal(h) == Len(h) = 4 /\ h[1] = "169" /\ h[2] = "254"

IsRfc1918(h) ==
  /\ Len(h) = 4
  /\ \/ h[1] = "10"
     \/ h[1] = "172" /\ h[2] \in {"16", "17", "18", "19", "20", "21", "22", "23",
                                   "24", "25", "26", "27", "28", "29", "30", "31"}
     \/ h[1] = "192" /\ h[2] = "168"

InternalOrigin(url) ==
  /\ UrlParses(url)
  /\ IsLoopback(UrlHostname(url)) \/ IsLinkLocal(UrlHostname(url)) \/ IsRfc1918(UrlHostname(url))

\* C11: in production a request for a gateway whose origin host is loopback,
\* link-local or RFC1918 private is answered 403 and is never forwarded.
C11_InternalOriginIsRefused ==
  \A r \in Requests :
    /\ Started(r)
    /\ req[r].gateway # NoGateway
    /\ InternalOrigin(req[r].gateway.originUrl)
    => /\ Finished(r)
       /\ req[r].res.status = 403
       /\ ~req[r].forwarded

----------------------------------------------------------------------------
(* Properties of the responses that handleRequest itself produces *)

\* the request was answered by handleRequest, not by the origin
Answered(r) == Finished(r) /\ ~req[r].forwarded

\* every string a client can read in the body of the answer to request r
ResponseTexts(r) ==
  LET body == req[r].res.body
  IN CASE "text" \in DOMAIN body -> {body.text}
       [] "reason" \in DOMAIN body -> {body.error, body.reason}
       [] "message" \in DOMAIN body ->
            {body.error, body.message, body.details.price, body.details.network,
             body.details.recipient}
       [] "details" \in DOMAIN body /\ req[r].settleOutcome = "throw" ->
            {body.error, body.details}
       [] "details" \in DOMAIN body -> {body.error, body.details.errorReason}
       [] OTHER -> {body.error}

\* what must stay inside the proxy
Confidential(gateway) ==
  {FacilitatorVerifyError, FacilitatorSettleError}
    \cup (IF gateway = NoGateway THEN {} ELSE {gateway.originUrl, gateway.secretToken})

\* C12: no response produced by handleRequest (404, 402, 403, 500, 502)
\* contains the origin URL, the secret token or the text of a facilitator
\* exception.
C12_NoSecretInResponse ==
  \A r \in Requests :
    Answered(r) => ResponseTexts(r) \cap Confidential(req[r].gateway) = {}

\* the request was answered with a payment challenge
Challenged(r) == Finished(r) /\ req[r].res.status = 402

\* C13: every 402 response has the requirement header and the JSON challenge
\* body, whether the payment header was absent or the proof was invalid, so
\* any two 402 responses have the same header names and body fields.
C13_ChallengesAreUniform ==
  \A r1, r2 \in Requests :
    Challenged(r1) /\ Challenged(r2)
    => /\ "PAYMENT-REQUIRED" \in DOMAIN req[r1].res.headers
       /\ DOMAIN req[r1].res.headers = DOMAIN req[r2].res.headers
       /\ DOMAIN req[r1].res.body = DOMAIN req[r2].res.body

----------------------------------------------------------------------------
(* Properties of verification and settlement failures *)

\* the header does not decode to JSON (not base64, or base64 of no JSON)
MalformedHeader(header) == ~JSONparses(Base64Decode(header))

\* C14: verifyPayment fails closed: for a header that is not base64 or not
\* JSON and for a failing facilitator call it returns isValid=false with a
\* reason and no payload, and the caller gets a result (it answers 402).
C14_VerifyFailsClosed ==
  \A r \in Requests :
    /\ req[r].verifyCalls > 0
    /\ MalformedHeader(PaymentHeader(req[r].headers)) \/ req[r].verifyOutcome = "throw"
    => /\ req[r].verifyResult # NoVerifyResult
       /\ req[r].verifyResult.isValid = FALSE
       /\ req[r].verifyResult.invalidReason # ""
       /\ req[r].verifyResult.paymentPayload = NoPayload
       /\ Challenged(r)
       /\ req[r].settleCalls = 0

\* a header that is not base64 was refused, and so was a well-formed proof
\* whose facilitator call failed
C14_Witness ==
  \E r1, r2 \in Requests :
    /\ req[r1].verifyCalls = 1
    /\ req[r1].headers.paymentSignature = NotBase64Header
    /\ ~req[r1].verifyResult.facilitatorCalled
    /\ req[r2].verifyCalls = 1
    /\ PaymentHeader(req[r2].headers) = GoodHeader
    /\ req[r2].verifyOutcome = "throw"
    /\ req[r2].verifyResult.facilitatorCalled
    /\ Challenged(r1) /\ Challenged(r2)

\* C15: a settlement failure is terminal with status 502 in both forms, when
\* settlePayment returns success=false and when the facilitator call throws.
C15_SettleFailureIs502 ==
  \A r \in Requests :
    SettleFailed(r)
    => /\ Finished(r)
       /\ req[r].res.status = 502
       /\ req[r].res.body.error = "Payment settlement failed"
       /\ ~req[r].forwarded

\* one settlement was rejected by the facilitator, another one threw
C15_Witness ==
  \E r1, r2 \in Requests :
    /\ req[r1].settleOutcome = "rejected" /\ req[r1].res.status = 502
    /\ req[r2].settleOutcome = "throw" /\ req[r2].res.status = 502
    /\ req[r1].settleCalls = 1 /\ req[r2].settleCalls = 1

----------------------------------------------------------------------------
(* Properties of telemetry: req[r].logs are the entries that request r has  *)
(* submitted with logRequest, in order.                                     *)

Logged(r) == Len(req[r].logs) > 0
LastLog(r) == req[r].logs[Len(req[r].logs)]

\* C16: the telemetry entry of a settlement that the facilitator rejected
\* carries a different error kind than the entry of a settlement whose
\* facilitator call failed.
C16_SettleFailureKindsDiffer ==
  \A r1, r2 \in Requests :
    /\ req[r1].settleOutcome = "rejected" /\ Logged(r1)
    /\ req[r2].settleOutcome = "throw" /\ Logged(r2)
    => LastLog(r1).errorType # LastLog(r2).errorType

\* C17: every request handled by handleRequest is recorded, whatever its
\* outcome: once the request is over, an entry for it has been submitted.
C17_EveryRequestIsLogged ==
  \A r \in Requests : Finished(r) => Logged(r)

\* C18: no request produces more than one telemetry entry, on every path
\* and across the proxyRes and error callbacks together.
C18_AtMostOneLogEntry ==
  \A r \in Requests : Len(req[r].logs) <= 1

\* C19: for a request with a valid proof whose settlement succeeded and
\* which was forwarded, the telemetry entry has paymentValid=true and
\* settlementStatus=success.
C19_ForwardedLogSaysSettled ==
  \A r \in Requests :
    req[r].forwarded /\ req[r].settleOutcome = "success" /\ Logged(r)
    => /\ LastLog(r).paymentValid
       /\ LastLog(r).settlementStatus = "success"

----------------------------------------------------------------------------
(* Properties of the settlement receipt *)

HasReceipt(r) == "PAYMENT-RESPONSE" \in DOMAIN req[r].res.headers

----------------------------------------------------------------------------
(* Repeated resolution of one host *)

\* r1 was answered from the durable store, r2 resolved the same host later,
\* inside the lifetime of the cache entry r1 wrote, and the store held the
\* same row at both times
ResolvedTwice(r1, r2) ==
  /\ r1 < r2 /\ Started(r1) /\ Started(r2)
  /\ req[r1].host = req[r2].host
  /\ req[r1].gateway # NoGateway
  /\ req[r1].gateway = req[r1].storeRow
  /\ req[r2].storeRow = req[r1].storeRow
  /\ req[r1].resolvedAt <= req[r2].resolvedAt
  /\ req[r2].resolvedAt < req[r1].resolvedAt + TTL

----------------------------------------------------------------------------
(* The proxy with failing surroundings *)

\* C21: an origin that exceeds the timeout is answered 504, an origin that
\* refuses the connection or whose name does not resolve is answered 502, and
\* on both paths a telemetry entry is submitted.
C21_TimeoutIs504RefusalIs502 ==
  [][\A r \in FaultRequests :
       /\ req[r].pc = "proxying" /\ req'[r].pc = "done"
       /\ req'[r].originFailure # "none"
       => /\ req'[r].res.status
               = IF req'[r].originFailure = "timeout" THEN 504 ELSE 502
          /\ Len(req'[r].logs) = Len(req[r].logs) + 1]_vars

\* C22: when a Redis command of resolveGateway fails, the host is still
\* resolved from the durable store and the request goes on.
C22_CacheOutageFallsBackToStore ==
  \A r \in FaultRequests :
    Started(r) /\ req[r].redisFault # "none"
    => /\ ~req[r].threw
       /\ SameData(req[r].gateway, StoreAnswer(r))

\* C23: the response never waits for the insert of the log entry (the step
\* that submits an entry completes no insert), and the completion of an
\* insert, failed or not, changes no response, ends no request and raises no
\* error.
C23_LogWriteNeverTouchesResponse ==
  [][\A r \in FaultRequests :
       /\ Len(req'[r].logs) > Len(req[r].logs)
            => req'[r].logWrites = req[r].logWrites
       /\ Len(req'[r].logWrites) > Len(req[r].logWrites)
            => \A q \in FaultRequests :
                 /\ req'[q].res = req[q].res
                 /\ req'[q].pc = req[q].pc
                 /\ req'[q].threw = req[q].threw]_vars

\* a forwarded request whose log insert threw and whose client still received
\* the origin's 200 in full
C23_Witness ==
  \E r \in FaultRequests :
    /\ Finished(r) /\ req[r].forwarded /\ ~req[r].threw
    /\ req[r].res.status = 200
    /\ req[r].logWrites = <<"throws">>

\* C30: a client that hangs up does not stop a settlement that was dispatched,
\* and the request still leaves a telemetry entry.
C30_SettlementSurvivesDisconnect ==
  \A r \in FaultRequests :
    Finished(r) /\ req[r].clientGone
    => /\ req[r].settleCalls = 1
       /\ Logged(r)

----------------------------------------------------------------------------
(* Gateway configuration and the payment requirement *)

\* C25: for every valid gateway the integer amount of the requirement equals
\* floor(price * 10^decimals) computed exactly on the decimal price.
C25_AmountIsExactFloor ==
  \A r \in Requests :
    req[r].requirements # NoRequirements
    => req[r].requirements.amount
         = ExactAmount(req[r].gateway.defaultPricePerRequest,
                       TokenOf(req[r].gateway).token.decimals)

UnknownNetwork(gateway) == NetworkOf(gateway) \notin Chains

UnknownAsset(gateway) ==
  IF gateway.defaultToken # "" THEN ~HasToken(gateway.defaultToken)
  ELSE Len(ChainTokens(NetworkOf(gateway))) = 0

InvalidPrice(gateway) == IsNaN(gateway.defaultPricePerRequest)

Misconfigured(r) ==
  /\ req[r].gateway # NoGateway
  /\ req[r].gateway.originUrl = "" \/ req[r].gateway.evmAddress = ""

\* r passed the validation of lines 32-54 and its requirements could not be built
BuildFailed(r) ==
  /\ req[r].pc \notin {"idle", "build"}
  /\ req[r].gateway # NoGateway /\ ~Misconfigured(r)
  /\ ~TokenOf(req[r].gateway).found

GenericErrors ==
  { [error |-> "Gateway misconfiguration"], [error |-> "Server configuration error"] }

\* C27: a gateway without origin URL or payout address, or one whose
\* requirements cannot be built, is answered 500 with a fixed message and no
\* headers, and the request is neither verified, settled nor forwarded.
C27_ConfigurationErrorIs500 ==
  \A r \in Requests :
    Misconfigured(r) \/ BuildFailed(r)
    => /\ Finished(r)
       /\ req[r].res.status = 500
       /\ req[r].res.headers = NoHeaders
       /\ req[r].res.body \in GenericErrors
       /\ req[r].verifyCalls = 0 /\ req[r].settleCalls = 0
       /\ ~req[r].forwarded

\* a request that carried a payment proof for a gateway naming a removed
\* token, and another one for the same gateway without a proof
C27_Witness ==
  \E r1, r2 \in Requests :
    /\ BuildFailed(r1) /\ BuildFailed(r2)
    /\ req[r1].headers.paymentSignature = GoodHeader
    /\ req[r2].headers.paymentSignature = NoHeader
    /\ req[r1].gateway.defaultToken = "tok-gone"
    /\ req[r1].res.status = 500 /\ req[r2].res.status = 500

----------------------------------------------------------------------------
(* Hosts that do not resolve *)

Unresolved(r) == Started(r) /\ ~req[r].threw /\ req[r].gateway = NoGateway

\* C28: every host that does not resolve is answered the same 404 with the
\* same body, whatever the durable store holds for the host (a deleted row, a
\* paused row, or no row at all).
C28_NotFoundIsUniform ==
  \A r1, r2 \in Resolutions :
    Unresolved(r1) /\ Unresolved(r2)
    => /\ req[r1].res.status = 404
       /\ req[r1].res = req[r2].res

\* the host of a deleted gateway and a host no gateway was registered for,
\* both answered 404
C28_Witness ==
  \E r1, r2 \in Resolutions :
    /\ Unresolved(r1) /\ Unresolved(r2)
    /\ req[r1].storeRow # NoGateway
    /\ req[r1].storeRow.status = "deleted"
    /\ req[r2].storeRow = NoGateway /\ req[r2].host = UnknownHost
    /\ req[r1].res.status = 404 /\ req[r2].res.status = 404

----------------------------------------------------------------------------
(* The life cycle of a gateway *)

\* C29: a gateway whose status has become deleted never has another status
\* again, and no operation removes a gateway record.
C29_DeletedIsFinal ==
  [][/\ DOMAIN db \subseteq DOMAIN db'
     /\ \A id \in DOMAIN db :
          db[id].status = "deleted" => db'[id].status = "deleted"]_vars

----------------------------------------------------------------------------
(* The request sent to the origin and the response relayed from it *)

\* C32: every request forwarded to the origin carries the gateway's secret
\* token, the gateway id, the subdomain and X-Gate402-Payment-Verified = true.
C32_ForwardedCarriesGatewayHeaders ==
  \A r \in Requests :
    req[r].forwarded
    => LET h == req[r].proxyReqHeaders
       IN /\ {"X-Gate402-Secret", "X-Gate402-Gateway-ID", "X-Gate402-Subdomain",
               "X-Gate402-Payment-Verified"} \subseteq DOMAIN h
          /\ h["X-Gate402-Secret"] = req[r].gateway.secretToken
          /\ h["X-Gate402-Gateway-ID"] = req[r].gateway.id
          /\ h["X-Gate402-Subdomain"] = req[r].gateway.subdomain
          /\ h["X-Gate402-Payment-Verified"] = "true"

\* a request with a settled proof on its way to the origin
C32_Witness ==
  \E r \in Requests :
    /\ req[r].forwarded /\ req[r].pc = "proxying"
    /\ req[r].settleOutcome = "success"
    /\ req[r].proxyReqHeaders["X-Gate402-Secret"] = "sk_1"

\* the proxyRes callback ran for r: the origin's response is being relayed
Relayed(r) == req[r].forwarded /\ "X-Proxied-By" \in DOMAIN req[r].res.headers

\* Cache-Control values that include private and no-store
PrivateNoStore == { "private, no-cache, no-store, must-revalidate", "private, no-store" }

\* C33: the response to a forwarded request carries a Cache-Control with
\* private and no-store when the origin sent none, and the origin's
\* Cache-Control unchanged when it sent one.
C33_PaidResponsesAreNotCached ==
  \A r \in Requests :
    Relayed(r)
    => /\ "Cache-Control" \in DOMAIN req[r].res.headers
       /\ IF "Cache-Control" \in DOMAIN req[r].originHeaders
          THEN req[r].res.headers["Cache-Control"] = req[r].originHeaders["Cache-Control"]
          ELSE req[r].res.headers["Cache-Control"] \in PrivateNoStore

\* one relayed response of an origin without Cache-Control and one of an
\* origin that sent its own
C33_Witness ==
  \E r1, r2 \in Requests :
    /\ Relayed(r1) /\ Relayed(r2)
    /\ req[r1].res.headers["Cache-Control"] \in PrivateNoStore
    /\ "Cache-Control" \notin DOMAIN req[r1].originHeaders
    /\ "Cache-Control" \in DOMAIN req[r2].originHeaders
    /\ req[r2].res.headers["Cache-Control"] = OriginCacheControl

\* C34: no configuration for credentialed CORS exists, so no relayed response
\* reflects the request's Origin together with
\* Access-Control-Allow-Credentials: true.
C34_NoCredentialedReflection ==
  \A r \in Requests :
    Relayed(r)
    => ~ /\ "Access-Control-Allow-Credentials" \in DOMAIN req[r].res.headers
         /\ req[r].res.headers["Access-Control-Allow-Origin"] = req[r].headers.origin

----------------------------------------------------------------------------
(* The origin check and the payment phases *)

\* the hostname is one the guard of lines 43-46 matches
GuardMatches(url) ==
  UrlHostname(url) \in BlockedHosts \/ PrivateRanges(UrlHostname(url))

\* C35: in production no Verify or Settle call is made, and nothing is
\* forwarded, for a request whose gateway's origin the guard matches or whose
\* origin URL does not parse.
C35_OriginCheckPrecedesPayment ==
  \A r \in Requests :
    /\ Started(r)
    /\ req[r].gateway # NoGateway
    /\ GuardMatches(req[r].gateway.originUrl) \/ ~UrlParses(req[r].gateway.originUrl)
    => /\ Finished(r)
       /\ req[r].verifyCalls = 0 /\ req[r].settleCalls = 0
       /\ ~req[r].forwarded

\* two requests that carried a payment proof, one refused by the guard and one
\* for a gateway whose origin URL does not parse
C35_Witness ==
  \E r1, r2 \in Requests :
    /\ Finished(r1) /\ Finished(r2)
    /\ req[r1].headers.paymentSignature = GoodHeader
    /\ req[r2].headers.paymentSignature = GoodHeader
    /\ req[r1].res.status = 403 /\ req[r1].verifyCalls = 0
    /\ req[r2].gateway # NoGateway
    /\ ~UrlParses(req[r2].gateway.originUrl)
    /\ req[r2].res.status = 500 /\ req[r2].verifyCalls = 0

----------------------------------------------------------------------------
(* The payment funnel in telemetry *)

\* C39: in every submitted entry paymentRequired is true, paymentValid implies
\* paymentProvided, and an entry with paymentValid = false has statusCode 402.
C39_FunnelIsMonotone ==
  \A r \in Requests :
    \A i \in 1..Len(req[r].logs) :
      LET entry == req[r].logs[i]
      IN /\ entry.paymentRequired
         /\ entry.paymentValid => entry.paymentProvided
         /\ ~entry.paymentValid => entry.statusCode = 402

\* an entry of a verified payment whose settlement failed, and an entry of a
\* proof that was provided and found invalid
C39_Witness ==
  \E r1, r2 \in Requests :
    /\ Logged(r1) /\ Logged(r2)
    /\ LastLog(r1).paymentValid /\ LastLog(r1).statusCode = 502
    /\ ~LastLog(r2).paymentValid /\ LastLog(r2).paymentProvided
    /\ LastLog(r2).statusCode = 402

----------------------------------------------------------------------------
(* The asset of a requirement and its network *)

\* the token row whose contract address a requirement names
TokenByAddress(address) == CHOOSE t \in Tokens : t.address = address

\* C37: every requirement built for a request names an asset whose token
\* belongs to the requirement's network, also when the gateway selects the
\* token by its defaultToken id.
C37_AssetBelongsToNetwork ==
  \A r \in Requests :
    req[r].requirements # NoRequirements
    => TokenByAddress(req[r].requirements.asset).chainId = req[r].requirements.network

----------------------------------------------------------------------------
(* Custom domains with three labels *)

\* C36: a host that is the exact custom domain of an active gateway G resolves
\* to G, never to another gateway whose subdomain is the host's first label and
\* never to NotFound because that other gateway is paused or deleted.
C36_CustomDomainResolvesToItsGateway ==
  \A r \in Resolutions :
    /\ Started(r)
    /\ req[r].host = db["gw1"].customDomain
    /\ db["gw1"].status = "active"
    => /\ req[r].gateway # NoGateway
       /\ req[r].gateway.id = "gw1"

----------------------------------------------------------------------------
(* Concurrent resolutions and management operations *)

\* no call of resolveGateway is between two of its steps
AllCompleted == \A r \in Resolutions : req[r].pc \in {"idle", "done"}

\* C31: once every resolveGateway call and the concurrent update or deletion
\* have completed, the cache holds for the host no entry or an entry equal to
\* the current record of the durable store.
C31_CacheNotCorruptedByRaces ==
  AllCompleted
  => \A host \in RaceHosts :
       RedisHas(cache, host, now)
       => cache[host].value = JSONstringify(LookupGateway(db, host))

----------------------------------------------------------------------------
(* Start-up order *)

\* C38: no request is handled, no middleware is attached and no server listens
\* before initialize has completed successfully; a call of initialize that
\* failed leaves initialized false, and after a failed start no server listens;
\* a repeated initialize after success synchronises nothing again.
C38_NothingServedBeforeInitialized ==
  /\ (\E r \in Slots : Started(r)) => boot.initialized
  /\ boot.attached => boot.initialized
  /\ boot.apiListening => boot.initialized /\ boot.attached
  /\ boot.proxyListening => boot.initialized /\ boot.attached
  /\ boot.lastCall = "threw" => ~boot.initialized
  /\ boot.pc = "rejected" => ~boot.apiListening /\ ~boot.proxyListening
  /\ boot.syncs = IF boot.initialized THEN 1 ELSE 0

\* a request was handled by a process on which initialize was called a second
\* time after the start
C38_Witness ==
  /\ \E r \in FaultRequests : Finished(r)
  /\ boot.pc = "up"
  /\ boot.initCalls = 2 /\ boot.syncs = 1

====
